---- MODULE Spec2Model ----
(***************************************************************************)
(* The authentication backend: an Express application whose pipeline is    *)
(* cors -> rate limiter -> json body parser -> route table -> 404          *)
(* responder -> centralized error responder, with the register / login /   *)
(* logout use-cases running                                                *)
(* against a MongoDB collection of accounts that has a unique index on     *)
(* email.  Each request is an independently scheduled unit of work: the    *)
(* code between two awaits of a handler is one atomic step, and the steps  *)
(* of different requests interleave freely.                                *)
(*                                                                         *)
(* JavaScript strings are modelled by TLA+ strings, `undefined` by the     *)
(* sentinel Absent.  A bcrypt hash and a signed token are structured       *)
(* values (records tagged by fmt) so that hashing and signing are not the  *)
(* identity.  A rejected promise of an async handler is forwarded to the   *)
(* error-handling middleware (Express 5 semantics).                        *)
(***************************************************************************)
EXTENDS Integers, FiniteSets, Sequences, TLC

(* ---------------------------------------------------------------- bounds *)

\* number of requests the model lets arrive
MaxReq == 2

\* last instant of the clock, in days
MaxClock == 20

\* days by which one clock step advances
ClockStep == 10

(* ------------------------------------------------------------- constants *)

\* expiresIn: "15d", in days
TokenDays == 15

\* maxAge of the session cookie, in milliseconds
CookieMaxAge == 15 * 24 * 60 * 60 * 1000

\* process.env.JWT_SECRET
JWT_SECRET == "jwt-secret"

\* the value of a body field, header or property that is not there
Absent == "<undefined>"

\* process.env.CORS_ORIGINS is unset: the list of allowed origins is empty
allowedOrigins == {}

Reqs == 1..MaxReq

\* the salts bcrypt.genSalt(10) may draw: one for every request
Salts == 1..MaxReq

\* max of the rate limiter when GLOBAL_RATE_LIMIT_MAX is unset
DefaultRateLimitMax == 100

\* max of the rate limiter when GLOBAL_RATE_LIMIT_MAX is set to 1
LowRateLimitMax == 1

\* the client addresses (req.ip) requests come from
Addresses == {"10.0.0.1", "10.0.0.2"}

\* a request body field that is a JSON number, not a string
NotAString == "<number>"

(* ------------------------------------------------------------------ state *)

VARIABLES
    authRouter,   \* the route table mounted under /api/auth
    NODE_ENV,     \* the running mode
    jwtSecret,    \* process.env.JWT_SECRET as the process reads it
    server,       \* the HTTP server and the database connection of the process
    limiter,      \* the rate limiter: its max and the hits of each address
    accounts,     \* the accounts collection
    now,          \* the clock, in days
    req,          \* req[r]: the request r as received
    pc,           \* pc[r]: where the handling of r stands
    handler,      \* handler[r]: the responder the pipeline dispatched r to
    local,        \* local[r]: the handler's local variables
    calls,        \* calls[r]: the collaborator calls made for r, in order
    err,          \* err[r]: the error raised while handling r
    res,          \* res[r]: the response written for r
    earlier       \* earlier[r]: the requests already answered when r arrived

\* what the process is configured and started with
config == <<authRouter, NODE_ENV, jwtSecret, server>>

vars == <<authRouter, NODE_ENV, jwtSecret, server, limiter, accounts, now, req, pc, handler,
          local, calls, err, res, earlier>>

(* ------------------------------------------------------------- requests *)

\* JavaScript truthiness of a body field: undefined and "" are falsy
Truthy(v) == v # Absent /\ v # ""

Names == {"A"}

Emails == {"a@x.com", "b@x.com"}

Passwords == {"p", "q"}

NoBody == [name |-> Absent, email |-> Absent, password |-> Absent]

\* the pairs of email and password sent: two passwords for the first email,
\* one for the second
Credentials ==
    {c \in [email : Emails, password : Passwords] : c.email = "a@x.com" \/ c.password = "p"}

\* bodies sent to register: the valid ones, and a valid one with one field
\* absent or empty
RegisterBodies ==
    { [name |-> n, email |-> c.email, password |-> c.password] : n \in Names, c \in Credentials }
    \cup { [[name |-> "A", email |-> "a@x.com", password |-> "p"] EXCEPT ![f] = v] :
             f \in {"name", "email", "password"}, v \in {Absent, ""} }

\* bodies sent to login: no name; the valid ones, one without email and one
\* with an empty password
LoginBodies ==
    { [name |-> Absent, email |-> c.email, password |-> c.password] : c \in Credentials }
    \cup { [name |-> Absent, email |-> Absent, password |-> "p"],
           [name |-> Absent, email |-> "a@x.com", password |-> ""] }

\* a request; it comes from the first address unless said otherwise
Request(method, url, origin, malformed, cookies, body) ==
    [method |-> method, url |-> url, origin |-> origin, malformed |-> malformed,
     cookies |-> cookies, body |-> body, ip |-> "10.0.0.1"]

\* the requests a client may send
Requests ==
    { Request("POST", "/api/auth/register", Absent, FALSE, {}, b) : b \in RegisterBodies }
    \cup { Request("POST", "/api/auth/login", Absent, FALSE, {}, b) : b \in LoginBodies }
    \cup { Request("POST", "/api/auth/logout", Absent, FALSE, c, NoBody) : c \in {{}, {"token"}} }
    \cup { Request("GET", "/api/test", Absent, FALSE, {}, NoBody),
           Request("GET", "/api/auth/login", Absent, FALSE, {}, NoBody),
           Request("POST", "/api/auth/profile", Absent, FALSE, {}, NoBody),
           Request("POST", "/api/auth/logout", "https://other.example", FALSE, {}, NoBody),
           Request("POST", "/api/auth/register", Absent, TRUE, {}, NoBody) }

(* ---------------------------------------------------------------- errors *)

\* an error object; statusCode 0 stands for an error that has no statusCode
Error(name, message, statusCode) ==
    [name |-> name, message |-> message, statusCode |-> statusCode,
     stack |-> name \o ": " \o message]

NoError == Error("", "", 0)

AppError(message, statusCode) == Error("AppError", message, statusCode)

\* the error the origin callback of cors hands on
CorsError == Error("Error", "CORS not allowed", 0)

\* the error express.json() hands on for a body that is not JSON
BodyParseError == Error("SyntaxError", "Unexpected token in JSON", 400)

\* the error Account.create rejects with when the unique index on email is hit
DuplicateKeyError == Error("MongoServerError", "E11000 duplicate key error", 0)

\* the error Account.create rejects with when a required path is empty
ValidationError == Error("ValidationError", "accounts validation failed", 0)

\* the error a model operation rejects with when the connection to the
\* database is not there: the operation is buffered, and the buffer times out
BufferingTimeoutError == Error("MongooseError", "Operation buffering timed out", 0)

\* the error bcryptjs rejects with when the password is not a string
IllegalArgumentsError == Error("Error", "Illegal arguments: number, string", 0)

\* the error jwt.sign throws when the secret is undefined
SecretError == Error("Error", "secretOrPrivateKey must have a value", 0)


(* ------------------------------------------------------------- responses *)

NoResponse == [status |-> 0, body |-> [pending |-> TRUE], cookies |-> <<>>]

Response(status, body, cookies) == [status |-> status, body |-> body, cookies |-> cookies]

\* an error responder that sends the stack in every running mode
globalErrorHandler_AlwaysStack(e) ==
    LET statusCode == IF e.statusCode # 0 THEN e.statusCode ELSE 500
        message == IF e.message # "" THEN e.message ELSE "Something went wrong."
    IN  Response(statusCode, [success |-> FALSE, message |-> message, stack |-> e.stack], <<>>)

\* the centralized error responder
globalErrorHandler(e) ==
    LET isDev == NODE_ENV = "development"
        defaultStatus == IF e.statusCode # 0 THEN e.statusCode ELSE 500
        defaultMessage == IF e.message # "" THEN e.message ELSE "Something went wrong."
        statusCode == IF e.name = "AppError" THEN e.statusCode ELSE defaultStatus
        message == IF e.name = "AppError" THEN e.message ELSE defaultMessage
    IN  Response(statusCode,
                 IF isDev THEN [success |-> FALSE, message |-> message, stack |-> e.stack]
                          ELSE [success |-> FALSE, message |-> message],
                 <<>>)

(* ------------------------------------------------------ credential hasher *)

\* a stored text that is not a bcrypt hash
Plain(text) == [fmt |-> "plain", text |-> text]

NoHash == [fmt |-> "none"]

\* hashPassword that hands the password back unhashed
hashPassword_Plain(password, salt) == Plain(password)

\* a hashPassword that uses one fixed salt
hashPassword_Unsalted(password, salt) ==
    [fmt |-> "bcrypt", salt |-> 0, digest |-> <<password, 0>>]

\* bcrypt.hash(password, salt): the salt in clear and a digest of both
hashPassword(password, salt) ==
    [fmt |-> "bcrypt", salt |-> salt, digest |-> <<password, salt>>]

\* comparePassword that accepts any password for a well-formed hash
comparePassword_Any(enteredPassword, storedPassword) == storedPassword.fmt = "bcrypt"

\* bcrypt.compare: rehash the entered password with the salt of the stored
\* hash; a stored text that is no bcrypt hash never matches
comparePassword(enteredPassword, storedPassword) ==
    /\ storedPassword.fmt = "bcrypt"
    /\ hashPassword(enteredPassword, storedPassword.salt) = storedPassword

(* ----------------------------------------------------------- token issuer *)

\* SignToken with expiresIn: "1d"
SignToken_OneDay(accountId, secret, t) ==
    [fmt |-> "jwt",
     payload |-> [accountId |-> accountId, iat |-> t, exp |-> t + 1],
     sig |-> secret]

\* jwt.sign({ accountId }, secret, { expiresIn: "15d" }) at instant t
SignToken(accountId, secret, t) ==
    [fmt |-> "jwt",
     payload |-> [accountId |-> accountId, iat |-> t, exp |-> t + TokenDays],
     sig |-> secret]

EmptyValue == [fmt |-> "empty"]

\* a generateToken whose cookie is never secure and is sent cross-site
generateToken_Insecure(accountId) ==
    [name |-> "token", value |-> SignToken(accountId, jwtSecret, now),
     maxAge |-> CookieMaxAge, httpOnly |-> TRUE, sameSite |-> "none",
     secure |-> FALSE]

\* the cookie generateToken puts on the response
generateToken(accountId) ==
    [name |-> "token", value |-> SignToken(accountId, jwtSecret, now),
     maxAge |-> CookieMaxAge, httpOnly |-> TRUE, sameSite |-> "lax",
     secure |-> (NODE_ENV = "production")]

(* ---------------------------------------------------------- account store *)

\* findAccountS whose filter never matches
findAccountS_NoMatch(email) == {}

\* Account.findOne({ email }).exec(): the oldest match, or none
findAccountS(email) ==
    LET found == {a \in accounts : a.email = email}
    IN  IF found = {} THEN {}
        ELSE {CHOOSE a \in found : \A b \in found : a._id <= b._id}

\* Account.create on a schema whose email is not unique
CreateOutcome_NoUniqueIndex(data) ==
    IF ~Truthy(data.name) \/ ~Truthy(data.email) \/ data.password = NoHash
    THEN "invalid"
    ELSE "created"

\* what Account.create(data) does: the schema's required paths, then the
\* unique index on email
CreateOutcome(data) ==
    IF ~Truthy(data.name) \/ ~Truthy(data.email) \/ data.password = NoHash
    THEN "invalid"
    ELSE IF \E a \in accounts : a.email = data.email THEN "duplicate"
    ELSE "created"

\* a store that gives every document the same _id
NewAccount_SameId(data) ==
    [_id |-> 1, name |-> data.name, email |-> data.email, password |-> data.password]

\* the document Account.create(data) persists, with its store-assigned _id
NewAccount(data) ==
    [_id |-> Cardinality(accounts) + 1, name |-> data.name, email |-> data.email,
     password |-> data.password]

\* a registerS that replaces the collection by the new document
registerS_Replace(data) == {NewAccount(data)}

\* the collection after registerS(data) has created its document
registerS(data) == accounts \cup {NewAccount(data)}

(* ----------------------------------------------------------- route table *)

BasePath == "/api/auth"

Route(method, path, to) == [method |-> method, path |-> BasePath \o path, handler |-> to]

\* the route table of routes/auth/auth.route.ts
AuthRoutes ==
    {Route("POST", "/register", "register"), Route("POST", "/login", "login"),
     Route("POST", "/logout", "logout")}

\* the route table of the second authRouter of the repository, without login
AuthRoutesNoLogin ==
    {Route("POST", "/register", "register"), Route("POST", "/logout", "logout")}

\* a pipeline without the rate limiter
Dispatch_NoLimiter(q) ==
    IF q.origin # Absent /\ q.origin \notin allowedOrigins THEN "cors"
    ELSE IF q.malformed THEN "json"
    ELSE IF q.method = "GET" /\ q.url = "/api/test" THEN "test"
    ELSE IF \E rt \in authRouter : rt.method = q.method /\ rt.path = q.url
         THEN (CHOOSE rt \in authRouter : rt.method = q.method /\ rt.path = q.url).handler
    ELSE "notFound"

\* the stage of the pipeline that answers or takes the request q
Dispatch(q) ==
    IF q.origin # Absent /\ q.origin \notin allowedOrigins THEN "cors"
    ELSE IF limiter.hits[q.ip] >= limiter.max THEN "limiter"
    ELSE IF q.malformed THEN "json"
    ELSE IF q.method = "GET" /\ q.url = "/api/test" THEN "test"
    ELSE IF \E rt \in authRouter : rt.method = q.method /\ rt.path = q.url
         THEN (CHOOSE rt \in authRouter : rt.method = q.method /\ rt.path = q.url).handler
    ELSE "notFound"

(* ------------------------------------------------------------------ Init *)

NoLocal == [account |-> {}, hashedPassword |-> NoHash]

\* nothing has been received yet
NoRequests ==
    /\ accounts = {}
    /\ now = 0
    /\ req = [r \in Reqs |-> Request("", "", Absent, FALSE, {}, NoBody)]
    /\ pc = [r \in Reqs |-> "new"]
    /\ handler = [r \in Reqs |-> "none"]
    /\ local = [r \in Reqs |-> NoLocal]
    /\ calls = [r \in Reqs |-> <<>>]
    /\ err = [r \in Reqs |-> NoError]
    /\ res = [r \in Reqs |-> NoResponse]
    /\ earlier = [r \in Reqs |-> {}]

\* the process before bootstrap() has run
Stopped == [listening |-> FALSE, connection |-> "none", exited |-> FALSE, log |-> <<>>]

\* the process once the server listens and mongoose.connect has resolved
Started ==
    [listening |-> TRUE, connection |-> "connected", exited |-> FALSE,
     log |-> <<"Server Running on port", "Connected to MongoDB">>]

\* the rate limiter as constructed with max, no request counted yet: the
\* hits of each address in its running window, and (for the record) the
\* requests they are the hits of
RateLimit(max) ==
    [max |-> max, hits |-> [a \in Addresses |-> 0], counted |-> [a \in Addresses |-> {}]]

\* the process up and connected, configured with a token secret and the
\* default rate limit
Init ==
    /\ authRouter \in {AuthRoutes, AuthRoutesNoLogin}
    /\ NODE_ENV \in {"production", "development"}
    /\ jwtSecret = JWT_SECRET
    /\ server = Started
    /\ limiter = RateLimit(DefaultRateLimitMax)
    /\ NoRequests

(* --------------------------------------------------------------- actions *)

\* requests arrive in the order of their numbers
Arrives(r) == pc[r] = "new" /\ (IF r = 1 THEN TRUE ELSE pc[r - 1] # "new")

\* a pipeline whose rate limiter counts every request under one key
Received_OneKey(r, q, to) ==
    /\ Arrives(r)
    /\ server.listening /\ ~server.exited
    /\ Dispatch(q) = to
    /\ limiter' = IF to = "cors" THEN limiter
                  ELSE [limiter EXCEPT !.hits = [a \in Addresses |-> @[a] + 1],
                                       !.counted[q.ip] = @ \cup {r}]
    /\ req' = [req EXCEPT ![r] = q]
    /\ handler' = [handler EXCEPT ![r] = to]
    /\ earlier' = [earlier EXCEPT ![r] = {r2 \in Reqs : pc[r2] = "done"}]

\* the request r is received as q and the pipeline hands it to stage `to`
Received(r, q, to) ==
    /\ Arrives(r)
    /\ server.listening /\ ~server.exited
    /\ Dispatch(q) = to
    /\ limiter' = IF to = "cors" THEN limiter
                  ELSE [limiter EXCEPT !.hits[q.ip] = @ + 1,
                                       !.counted[q.ip] = @ \cup {r}]
    /\ req' = [req EXCEPT ![r] = q]
    /\ handler' = [handler EXCEPT ![r] = to]
    /\ earlier' = [earlier EXCEPT ![r] = {r2 \in Reqs : pc[r2] = "done"}]

\* the handling of r ends with the response rsp
Respond(r, rsp) ==
    /\ res' = [res EXCEPT ![r] = rsp]
    /\ pc' = [pc EXCEPT ![r] = "done"]

\* the handling of r raises e and nothing answers it
Throw_Unhandled(r, e) ==
    /\ err' = [err EXCEPT ![r] = e]
    /\ UNCHANGED <<res, pc>>

\* the handling of r raises e, which the centralized error responder answers
Throw(r, e) ==
    /\ err' = [err EXCEPT ![r] = e]
    /\ Respond(r, globalErrorHandler(e))

Called(r, names) == calls' = [calls EXCEPT ![r] = calls[r] \o names]

\* the connection the model operations of mongoose need is there
Connected == server.connection = "connected"

\* the salts drawn so far
UsedSalts ==
    {local[r].hashedPassword.salt : r \in {r2 \in Reqs : local[r2].hashedPassword # NoHash}}

\* a presence check that forgets the name
registerValid_NoName(body) == Truthy(body.email) /\ Truthy(body.password)

\* register's presence check of its three fields
registerValid(body) == Truthy(body.name) /\ Truthy(body.email) /\ Truthy(body.password)

\* login's presence check of its two fields
loginValid(body) == Truthy(body.email) /\ Truthy(body.password)

\* cors or express.json() refuses the request
Rejected(r, q) ==
    /\ \/ Received(r, q, "cors") /\ Throw(r, CorsError)
       \/ Received(r, q, "json") /\ Throw(r, BodyParseError)
    /\ UNCHANGED <<config, accounts, now, local, calls>>

\* GET /api/test
Test(r, q) ==
    /\ Received(r, q, "test")
    /\ Respond(r, Response(200, [text |-> "Api is running"], <<>>))
    /\ UNCHANGED <<config, accounts, now, local, calls, err>>

\* a 404 responder that does not echo the request
NotFound_NoEcho(r, q) ==
    /\ Received(r, q, "notFound")
    /\ Respond(r, Response(404, [message |-> "Route Not Found", path |-> "/",
                                 method |-> "GET"], <<>>))
    /\ UNCHANGED <<config, accounts, now, local, calls, err>>

\* the 404 responder for a request no route matched
NotFound(r, q) ==
    /\ Received(r, q, "notFound")
    /\ Respond(r, Response(404, [message |-> "Route Not Found", path |-> q.url,
                                 method |-> q.method], <<>>))
    /\ UNCHANGED <<config, accounts, now, local, calls, err>>

\* the cookie logout puts on the response
LogoutCookie == [name |-> "token", value |-> EmptyValue, maxAge |-> 0]

\* logout behind an authentication check
Logout_Authenticated(r, q) ==
    /\ Received(r, q, "logout")
    /\ IF "token" \in q.cookies
       THEN /\ Respond(r, Response(200, [message |-> "Logged out successfully"],
                                   <<LogoutCookie>>))
            /\ UNCHANGED err
       ELSE Throw(r, AppError("Unauthorized.", 401))
    /\ UNCHANGED <<config, accounts, now, local, calls>>

\* logout
Logout(r, q) ==
    /\ Received(r, q, "logout")
    /\ Respond(r, Response(200, [message |-> "Logged out successfully"], <<LogoutCookie>>))
    /\ UNCHANGED <<config, accounts, now, local, calls, err>>

\* register, up to its first await: the presence check
RegisterBegin(r, q) ==
    /\ Received(r, q, "register")
    /\ IF registerValid(q.body)
       THEN /\ pc' = [pc EXCEPT ![r] = "register.find"]
            /\ UNCHANGED <<err, res>>
       ELSE Throw(r, AppError("All fields are required.", 400))
    /\ UNCHANGED <<config, accounts, now, local, calls>>

\* register: the existence check by email
RegisterFind(r) ==
    /\ pc[r] = "register.find"
    /\ Called(r, <<"findAccountS">>)
    /\ IF ~Connected
       THEN Throw(r, BufferingTimeoutError)
       ELSE IF findAccountS(req[r].body.email) # {}
       THEN Throw(r, AppError("Email already exist.", 409))
       ELSE /\ pc' = [pc EXCEPT ![r] = "register.hash"]
            /\ UNCHANGED <<err, res>>
    /\ UNCHANGED <<config, accounts, now, req, handler, limiter, local, earlier>>

\* register: the password is hashed with a salt no earlier call has drawn;
\* bcryptjs refuses a password that is not a string
RegisterHash(r, salt) ==
    /\ pc[r] = "register.hash"
    /\ salt \notin UsedSalts
    /\ Called(r, <<"hashPassword">>)
    /\ IF req[r].body.password = NotAString
       THEN /\ Throw(r, IllegalArgumentsError)
            /\ UNCHANGED local
       ELSE /\ local' = [local EXCEPT ![r].hashedPassword =
                                            hashPassword(req[r].body.password, salt)]
            /\ pc' = [pc EXCEPT ![r] = "register.create"]
            /\ UNCHANGED <<err, res>>
    /\ UNCHANGED <<config, accounts, now, req, handler, limiter, earlier>>

\* register: the account is created, the token issued (jwt.sign refuses an
\* undefined secret, after the create), the response sent
RegisterCreate(r) ==
    LET data == [name |-> req[r].body.name, email |-> req[r].body.email,
                 password |-> local[r].hashedPassword]
        account == NewAccount(data)
        outcome == CreateOutcome(data)
    IN  /\ pc[r] = "register.create"
        /\ IF ~Connected
           THEN /\ Called(r, <<"registerS">>)
                /\ Throw(r, BufferingTimeoutError)
                /\ UNCHANGED <<accounts, local>>
           ELSE IF outcome = "created"
           THEN /\ accounts' = registerS(data)
                /\ local' = [local EXCEPT ![r].account = {account}]
                /\ Called(r, <<"registerS", "generateToken">>)
                /\ IF jwtSecret = Absent
                   THEN Throw(r, SecretError)
                   ELSE /\ Respond(r, Response(200,
                                               [message |-> "Account registered successfully."],
                                               <<generateToken(account._id)>>))
                        /\ UNCHANGED err
           ELSE /\ Called(r, <<"registerS">>)
                /\ Throw(r, IF outcome = "duplicate" THEN DuplicateKeyError
                                                     ELSE ValidationError)
                /\ UNCHANGED <<accounts, local>>
        /\ UNCHANGED <<config, now, req, handler, limiter, earlier>>

\* login, up to its first await: the presence check
LoginBegin(r, q) ==
    /\ Received(r, q, "login")
    /\ IF loginValid(q.body)
       THEN /\ pc' = [pc EXCEPT ![r] = "login.find"]
            /\ UNCHANGED <<err, res>>
       ELSE Throw(r, AppError("All field are required.", 400))
    /\ UNCHANGED <<config, accounts, now, local, calls>>

\* login: the account is looked up by email
LoginFind(r) ==
    LET account == findAccountS(req[r].body.email)
    IN  /\ pc[r] = "login.find"
        /\ Called(r, <<"findAccountS">>)
        /\ IF ~Connected
           THEN /\ Throw(r, BufferingTimeoutError)
                /\ UNCHANGED local
           ELSE IF account = {}
           THEN /\ Throw(r, AppError("Account not found.", 404))
                /\ UNCHANGED local
           ELSE /\ local' = [local EXCEPT ![r].account = account]
                /\ pc' = [pc EXCEPT ![r] = "login.compare"]
                /\ UNCHANGED <<err, res>>
        /\ UNCHANGED <<config, accounts, now, req, handler, limiter, earlier>>

\* login: the password is verified (bcryptjs refuses one that is not a
\* string), the token issued, the response sent
LoginCompare(r) ==
    LET account == CHOOSE a \in local[r].account : TRUE
    IN  /\ pc[r] = "login.compare"
        /\ IF req[r].body.password = NotAString
           THEN /\ Called(r, <<"comparePassword">>)
                /\ Throw(r, IllegalArgumentsError)
           ELSE IF comparePassword(req[r].body.password, account.password)
           THEN /\ Called(r, <<"comparePassword", "generateToken">>)
                /\ IF jwtSecret = Absent
                   THEN Throw(r, SecretError)
                   ELSE /\ Respond(r, Response(200, [message |-> "Login successfuly."],
                                               <<generateToken(account._id)>>))
                        /\ UNCHANGED err
           ELSE /\ Called(r, <<"comparePassword">>)
                /\ Throw(r, AppError("Incorrect password.", 400))
        /\ UNCHANGED <<config, accounts, now, req, handler, limiter, local, earlier>>

\* time passes
Tick ==
    /\ now + ClockStep <= MaxClock
    /\ now' = now + ClockStep
    /\ UNCHANGED <<config, accounts, req, pc, handler, limiter, local, calls, err, res, earlier>>

Next ==
    \/ \E r \in Reqs, q \in Requests :
          \/ Rejected(r, q)
          \/ Test(r, q)
          \/ NotFound(r, q)
          \/ Logout(r, q)
          \/ RegisterBegin(r, q)
          \/ LoginBegin(r, q)
    \/ \E r \in Reqs :
          \/ RegisterFind(r)
          \/ \E salt \in Salts : RegisterHash(r, salt)
          \/ RegisterCreate(r)
          \/ LoginFind(r)
          \/ LoginCompare(r)

Spec == Init /\ [][Next]_vars

\* the requests of one client's session: register, login, logout
SessionRequests ==
    { q \in Requests : /\ Dispatch(q) \in {"register", "login", "logout"}
                       /\ q.body.email \in {Absent, "a@x.com"}
                       /\ q.body.password \in {Absent, "p"} }

\* the same handlers under a running clock
NextSession ==
    \/ \E r \in Reqs, q \in SessionRequests :
          \/ Logout(r, q)
          \/ RegisterBegin(r, q)
          \/ LoginBegin(r, q)
    \/ \E r \in Reqs :
          \/ RegisterFind(r)
          \/ \E salt \in Salts : RegisterHash(r, salt)
          \/ RegisterCreate(r)
          \/ LoginFind(r)
          \/ LoginCompare(r)
    \/ Tick

SpecSession == Init /\ [][NextSession]_vars

(* ---------------------------------------------------------- rate limit *)

\* the rate limiter answers a request whose address is over the cap
Limited(r, q) ==
    /\ Received(r, q, "limiter")
    /\ Respond(r, Response(429, [text |-> "Too many requests, please try again later."],
                           <<>>))
    /\ UNCHANGED <<config, accounts, now, local, calls, err>>

\* the window of the address a elapses: its hits are forgotten
WindowElapses(a) ==
    /\ limiter.hits[a] > 0
    /\ limiter' = [limiter EXCEPT !.hits[a] = 0, !.counted[a] = {}]
    /\ UNCHANGED <<config, accounts, now, req, pc, handler, local, calls, err, res, earlier>>

\* one valid register, login and logout, a request from a foreign origin and
\* one with a malformed body, each from either address
LimitedRequests ==
    { [q EXCEPT !.ip = a] :
        a \in Addresses,
        q \in { Request("POST", "/api/auth/register", Absent, FALSE, {},
                        [name |-> "A", email |-> "a@x.com", password |-> "p"]),
                Request("POST", "/api/auth/login", Absent, FALSE, {},
                        [name |-> Absent, email |-> "a@x.com", password |-> "p"]),
                Request("POST", "/api/auth/logout", Absent, FALSE, {"token"}, NoBody),
                Request("POST", "/api/auth/logout", "https://other.example", FALSE, {}, NoBody),
                Request("POST", "/api/auth/register", Absent, TRUE, {}, NoBody) } }

\* the process up and connected, with GLOBAL_RATE_LIMIT_MAX set to 1
InitLimited ==
    /\ authRouter = AuthRoutes
    /\ NODE_ENV \in {"production", "development"}
    /\ jwtSecret = JWT_SECRET
    /\ server = Started
    /\ limiter = RateLimit(LowRateLimitMax)
    /\ NoRequests

NextLimited ==
    \/ \E r \in Reqs, q \in LimitedRequests :
          \/ Rejected(r, q)
          \/ Limited(r, q)
          \/ Logout(r, q)
          \/ RegisterBegin(r, q)
          \/ LoginBegin(r, q)
    \/ \E r \in Reqs :
          \/ RegisterFind(r)
          \/ \E salt \in Salts : RegisterHash(r, salt)
          \/ RegisterCreate(r)
          \/ LoginFind(r)
          \/ LoginCompare(r)
    \/ \E a \in Addresses : WindowElapses(a)

SpecLimited == InitLimited /\ [][NextLimited]_vars

(* ------------------------------------------------- startup and faults *)

\* bootstrap(): the server starts to listen; the listen callback calls
\* initDB(), which starts to connect, and logs the port
Listen ==
    /\ server = Stopped
    /\ server' = [server EXCEPT !.listening = TRUE, !.connection = "connecting",
                                !.log = @ \o <<"Server Running on port">>]
    /\ UNCHANGED <<authRouter, NODE_ENV, jwtSecret, limiter, accounts, now, req, pc, handler,
                   local, calls, err, res, earlier>>

\* initDB(): mongoose.connect resolves
InitDBConnected ==
    /\ server.connection = "connecting"
    /\ server' = [server EXCEPT !.connection = "connected",
                                !.log = @ \o <<"Connected to MongoDB">>]
    /\ UNCHANGED <<authRouter, NODE_ENV, jwtSecret, limiter, accounts, now, req, pc, handler,
                   local, calls, err, res, earlier>>

\* initDB() that ends the process when the connection fails
InitDBFailed_Exit ==
    /\ server.connection = "connecting"
    /\ server' = [server EXCEPT !.connection = "failed", !.listening = FALSE,
                                !.exited = TRUE,
                                !.log = @ \o <<"MongoDB connection error:">>]
    /\ UNCHANGED <<authRouter, NODE_ENV, jwtSecret, limiter, accounts, now, req, pc, handler,
                   local, calls, err, res, earlier>>

\* initDB(): mongoose.connect rejects; the catch block logs and returns
InitDBFailed ==
    /\ server.connection = "connecting"
    /\ server' = [server EXCEPT !.connection = "failed",
                                !.log = @ \o <<"MongoDB connection error:">>]
    /\ UNCHANGED <<authRouter, NODE_ENV, jwtSecret, limiter, accounts, now, req, pc, handler,
                   local, calls, err, res, earlier>>

\* register and login requests for one email, with a password that is a
\* string and one that is a JSON number
FaultRequests ==
    { Request("POST", "/api/auth/register", Absent, FALSE, {},
              [name |-> "A", email |-> "a@x.com", password |-> p]) : p \in {"p", NotAString} }
    \cup { Request("POST", "/api/auth/login", Absent, FALSE, {},
                   [name |-> Absent, email |-> "a@x.com", password |-> p]) :
              p \in {"p", NotAString} }

\* the process before bootstrap(), in any running mode, with or without a
\* token secret
InitFaults ==
    /\ authRouter = AuthRoutes
    /\ NODE_ENV \in {"production", "development", Absent}
    /\ jwtSecret \in {JWT_SECRET, Absent}
    /\ server = Stopped
    /\ limiter = RateLimit(DefaultRateLimitMax)
    /\ NoRequests

\* the continuation of the handler of r after an await
Step(r) ==
    \/ RegisterFind(r)
    \/ \E salt \in Salts : RegisterHash(r, salt)
    \/ RegisterCreate(r)
    \/ LoginFind(r)
    \/ LoginCompare(r)

NextFaults ==
    \/ Listen
    \/ InitDBConnected
    \/ InitDBFailed
    \/ \E r \in Reqs, q \in FaultRequests :
          \/ RegisterBegin(r, q)
          \/ LoginBegin(r, q)
    \/ \E r \in Reqs :
          \/ RegisterFind(r)
          \/ \E salt \in Salts : RegisterHash(r, salt)
          \/ RegisterCreate(r)
          \/ LoginFind(r)
          \/ LoginCompare(r)

\* the event loop resumes every handler whose awaited promise has settled
SpecFaults ==
    InitFaults /\ [][NextFaults]_vars /\ \A r \in Reqs : WF_vars(Step(r))

(* ---------------------------------------------------- notions of the claims *)

Done(r) == pc[r] = "done"

\* the field f of the body of r is absent or empty
Missing(r, f) == req[r].body[f] \in {Absent, ""}

\* r is a register request whose three fields are present and non-empty
ValidRegister(r) ==
    handler[r] = "register" /\ \A f \in {"name", "email", "password"} : ~Missing(r, f)

\* r is a login request whose two fields are present and non-empty
ValidLogin(r) ==
    handler[r] = "login" /\ \A f \in {"email", "password"} : ~Missing(r, f)

\* the persisted accounts that hold the email e
Holding(e) == {a \in accounts : a.email = e}

\* r was answered 200 with a session cookie carrying a token for account a
SessionCookieSet(r, a) ==
    /\ Len(res[r].cookies) = 1
    /\ res[r].cookies[1].name = "token"
    /\ res[r].cookies[1].value.fmt = "jwt"
    /\ res[r].cookies[1].value.payload.accountId = a._id

\* r2 is a register request that was answered 200 before r arrived
RegisteredBefore(r2, r) ==
    r2 \in earlier[r] /\ handler[r2] = "register" /\ res[r2].status = 200

(* ------------------------------------------------------------------ C1 *)

\* the register requests that carry the email e with valid name and password
RegistersOf(e) == {r \in Reqs : ValidRegister(r) /\ req[r].body.email = e}

\* C1: when N >= 2 register requests with the same email and valid fields have
\* all been answered, whatever the interleaving of their existence checks and
\* creates, exactly one of them was answered 200 and every other one 409.
C1_RaceOneSuccessOthersConflict ==
    \A e \in Emails :
        (Cardinality(RegistersOf(e)) >= 2 /\ \A r \in RegistersOf(e) : Done(r))
        => /\ Cardinality({r \in RegistersOf(e) : res[r].status = 200}) = 1
           /\ \A r \in RegistersOf(e) : res[r].status \in {200, 409}

(* ------------------------------------------------------------------ C2 *)

\* C2: in every reachable state no two persisted accounts have the same email.
C2_EmailUnique ==
    \A a, b \in accounts : a.email = b.email => a = b

\* the unique index has rejected a create whose existence check had passed,
\* and an account with that email is persisted
C2_Witness ==
    \E r \in Reqs : /\ err[r] = DuplicateKeyError
                    /\ Cardinality(Holding(req[r].body.email)) = 1

(* ------------------------------------------------------------------ C3 *)

\* r is a register request with a field absent or empty
InvalidRegister(r) ==
    handler[r] = "register" /\ \E f \in {"name", "email", "password"} : Missing(r, f)

\* C3: a register request with name, email or password absent or empty is
\* answered 400 at once, no lookup, hash or create call is made for it, it
\* holds no account, and the step that handles it leaves the store as it was.
C3_InvalidRegisterRejected ==
    /\ [](\A r \in Reqs : InvalidRegister(r) =>
            /\ Done(r)
            /\ res[r].status = 400
            /\ res[r].cookies = <<>>
            /\ calls[r] = <<>>
            /\ local[r] = NoLocal)
    /\ [][\A r \in Reqs : (pc[r] = "new" /\ InvalidRegister(r)') => accounts' = accounts]_vars

\* a register request with an empty password was answered after an account
\* had been registered
C3_Witness ==
    \E r, r2 \in Reqs :
        /\ RegisteredBefore(r2, r)
        /\ InvalidRegister(r) /\ Done(r) /\ req[r].body.password = ""
        /\ accounts # {}

(* ------------------------------------------------------------------ C4 *)

\* C4: once a register request with email e was answered 200, a register
\* request with the same email that arrives later, with any present name and
\* password, is answered 409 and sets no cookie, and the store holds exactly
\* one account with email e.
C4_SecondRegisterConflicts ==
    \A r, r2 \in Reqs :
        (/\ RegisteredBefore(r2, r)
         /\ ValidRegister(r)
         /\ req[r].body.email = req[r2].body.email)
        => /\ Cardinality(Holding(req[r].body.email)) = 1
           /\ Done(r) => (res[r].status = 409 /\ res[r].cookies = <<>>)

\* the later request, with another password, has been answered
C4_Witness ==
    \E r, r2 \in Reqs :
        /\ RegisteredBefore(r2, r)
        /\ ValidRegister(r) /\ Done(r)
        /\ req[r].body.email = req[r2].body.email
        /\ req[r].body.password # req[r2].body.password

(* ------------------------------------------------------------------ C5 *)

\* C5: a register request with valid fields whose email no account of another
\* request holds is answered 200; the store then holds exactly one account with
\* that email, the one this request created, with the submitted name, a bcrypt
\* hash that the submitted password verifies against and that is not the
\* plaintext; and the response sets the session cookie for that account.
C5_FreshRegisterSucceeds ==
    \A r \in Reqs :
        (/\ ValidRegister(r) /\ Done(r)
         /\ Holding(req[r].body.email) \subseteq local[r].account)
        => /\ res[r].status = 200
           /\ \E a \in accounts :
                /\ Holding(req[r].body.email) = {a}
                /\ local[r].account = {a}
                /\ a.name = req[r].body.name
                /\ a.password.fmt = "bcrypt"
                /\ a.password # Plain(req[r].body.password)
                /\ comparePassword(req[r].body.password, a.password)
                /\ SessionCookieSet(r, a)

\* a registration has succeeded in a store that already held another account
C5_Witness ==
    \E r \in Reqs :
        /\ ValidRegister(r) /\ Done(r) /\ res[r].status = 200
        /\ Cardinality(accounts) = 2

(* ------------------------------------------------------------------ C6 *)

\* the password the account a was registered with
RegisteredPassword(a) ==
    {req[r].body.password : r \in {r2 \in Reqs : handler[r2] = "register" /\ local[r2].account = {a}}}

UseCaseOf(url) ==
    IF url = "/api/auth/register" THEN "register"
    ELSE IF url = "/api/auth/login" THEN "login"
    ELSE "logout"

\* C7: a POST to /api/auth/register, /api/auth/login or /api/auth/logout that
\* cors and the body parser let through is dispatched to its use-case; in
\* particular a login request is never answered by the 404 responder.
C7_LoginRouted ==
    \A r \in Reqs :
        (/\ pc[r] # "new"
         /\ req[r].method = "POST"
         /\ req[r].url \in {"/api/auth/register", "/api/auth/login", "/api/auth/logout"}
         /\ handler[r] \notin {"cors", "json"})
        => handler[r] = UseCaseOf(req[r].url)

(* ------------------------------------------------------------------ C8 *)

\* C8: a request dispatched to logout is answered 200 at once with the cookie
\* token set to the empty value and maxAge 0, raises no error and makes no
\* collaborator call, whatever cookie it carried and whatever happened before.
C8_LogoutAlways ==
    \A r \in Reqs :
        handler[r] = "logout" =>
            /\ Done(r)
            /\ res[r].status = 200
            /\ res[r].cookies = <<[name |-> "token", value |-> EmptyValue, maxAge |-> 0]>>
            /\ err[r] = NoError
            /\ calls[r] = <<>>

\* a logout without cookie was answered after an earlier logout, nobody
\* having registered
C8_Witness ==
    \E r, r2 \in Reqs :
        /\ r2 \in earlier[r] /\ handler[r2] = "logout"
        /\ handler[r] = "logout" /\ Done(r) /\ req[r].cookies = {}
        /\ accounts = {}

(* ------------------------------------------------------------------ C9 *)

\* the tokens issued so far
Issued ==
    {res[r].cookies[1].value :
        r \in {r2 \in Reqs : handler[r2] \in {"register", "login"} /\ res[r2].status = 200}}

\* jwt.verify(t, secret) at the present instant: signature and expiry
TokenVerifies(t) == t.fmt = "jwt" /\ t.sig = JWT_SECRET /\ now < t.payload.exp

\* C9: every token issued verifies at every instant less than 15 days after
\* its issuance, and a logout step leaves the account store unchanged and
\* every token that verified before it verifying after it.
C9_TokenSurvivesLogout ==
    /\ [](\A t \in Issued : now < t.payload.iat + TokenDays => TokenVerifies(t))
    /\ [][(\E r \in Reqs : pc[r] = "new" /\ handler'[r] = "logout")
            => /\ accounts' = accounts
               /\ \A t \in Issued : TokenVerifies(t) => TokenVerifies(t)']_vars

\* a token was issued, time passed, a logout was answered, and the token is
\* within its 15 days
C9_Witness ==
    \E r, r2 \in Reqs :
        /\ RegisteredBefore(r2, r)
        /\ handler[r] = "logout" /\ Done(r)
        /\ now > res[r2].cookies[1].value.payload.iat
        /\ now < res[r2].cookies[1].value.payload.iat + TokenDays

(* ------------------------------------------------------------------ C10 *)

\* C10: the response to a raised error carries the status code and message of
\* the error when it is an AppError, and 500 with the generic message for
\* every other error.
C10_ErrorResponder ==
    \A r \in Reqs :
        (Done(r) /\ err[r] # NoError) =>
            IF err[r].name = "AppError"
            THEN res[r].status = err[r].statusCode /\ res[r].body.message = err[r].message
            ELSE res[r].status = 500 /\ res[r].body.message = "Something went wrong."

(* ------------------------------------------------------------------ C11 *)

\* r was dispatched to register or login
InUseCase(r) == handler[r] \in {"register", "login"}

\* the response written for r has the shape the error responder gives it
ErrorResponse(r) ==
    /\ res[r].status = (IF err[r].statusCode # 0 THEN err[r].statusCode ELSE 500)
    /\ res[r].body.success = FALSE
    /\ res[r].body.message = err[r].message
    /\ res[r].cookies = <<>>

\* C11: every request dispatched to register or login is eventually answered;
\* when an error was raised while handling it (by a check of the handler, the
\* store, the hasher or the token issuer) the answer is the one of the error
\* responder; no collaborator is called twice for a request; and a request
\* once answered keeps its response, its error and its calls.
C11_ErrorAnsweredOnce ==
    /\ \A r \in Reqs : (InUseCase(r) ~> Done(r))
    /\ [](\A r \in Reqs : (InUseCase(r) /\ err[r] # NoError) =>
            /\ Done(r)
            /\ ErrorResponse(r)
            /\ \A i, j \in 1..Len(calls[r]) : calls[r][i] = calls[r][j] => i = j)
    /\ [][\A r \in Reqs : Done(r) =>
            /\ Done(r)'
            /\ res'[r] = res[r] /\ err'[r] = err[r] /\ calls'[r] = calls[r]]_vars

\* the hasher refused one request and the token issuer another, the store
\* being connected, and both were answered
C11_Witness ==
    \E r, r2 \in Reqs :
        /\ Done(r) /\ err[r] = IllegalArgumentsError
        /\ Done(r2) /\ err[r2] = SecretError
        /\ Connected

(* ------------------------------------------------------------------ C12 *)

\* the error responder has written the response of r
ErrorAnswered(r) == Done(r) /\ err[r] # NoError

\* C12: every body the error responder writes has success false and a
\* non-empty message, and has a stack field only when the running mode is not
\* production: in production no error response has a stack.
C12_NoStackInProduction ==
    \A r \in Reqs :
        ErrorAnswered(r) =>
            /\ {"success", "message"} \subseteq DOMAIN res[r].body
            /\ res[r].body.success = FALSE
            /\ res[r].body.message # ""
            /\ "stack" \in DOMAIN res[r].body => NODE_ENV # "production"
            /\ NODE_ENV = "production" => "stack" \notin DOMAIN res[r].body

\* in production an error that is no AppError was answered, after one that
\* is an AppError
C12_Witness ==
    \E r, r2 \in Reqs :
        /\ NODE_ENV = "production"
        /\ ErrorAnswered(r) /\ err[r].name # "AppError"
        /\ ErrorAnswered(r2) /\ err[r2].name = "AppError"

(* ------------------------------------------------------------------ C13 *)

\* r arrives in this step, past cors, while its address has used up the cap
\* of the running window
ArrivesOverCap(r) ==
    /\ pc[r] = "new" /\ pc'[r] # "new"
    /\ handler'[r] # "cors"
    /\ limiter.hits[req'[r].ip] >= limiter.max

\* C13: a request that cors lets through and whose address has reached the
\* cap within the running window is answered 429 by the limiter in the step
\* of its arrival; it never reaches register, login or logout: no collaborator
\* is ever called for it, the store is as it was, and its response sets or
\* clears no cookie.
C13_OverCapNeverHandled ==
    /\ [][\A r \in Reqs : ArrivesOverCap(r) =>
            /\ handler'[r] = "limiter"
            /\ Done(r)' /\ res'[r].status = 429
            /\ accounts' = accounts]_vars
    /\ [](\A r \in Reqs : handler[r] = "limiter" =>
            /\ Done(r) /\ res[r].status = 429
            /\ res[r].cookies = <<>>
            /\ calls[r] = <<>>
            /\ local[r] = NoLocal
            /\ err[r] = NoError)

\* a login from the address that has just registered was answered by the
\* limiter, the account being there
C13_Witness ==
    \E r, r2 \in Reqs :
        /\ RegisteredBefore(r2, r)
        /\ req[r].ip = req[r2].ip
        /\ req[r].url = "/api/auth/login" /\ ~req[r].malformed
        /\ handler[r] = "limiter" /\ Done(r)

(* ------------------------------------------------------------------ C14 *)

\* C14: no step deletes a persisted account or changes one of its fields; a
\* step of a login or logout request leaves the store as it was; and a step
\* that changes the store is the create step of a register request, which
\* adds the account of that request.
C14_StoreOnlyGrows ==
    [][/\ accounts \subseteq accounts'
       /\ \A a \in accounts' \ accounts : \A b \in accounts : b._id # a._id
       /\ \A r \in Reqs :
             (handler'[r] \in {"login", "logout"} /\ pc'[r] # pc[r]) => accounts' = accounts
       /\ accounts' # accounts =>
             \E r \in Reqs : /\ handler[r] = "register" /\ pc[r] = "register.create"
                              /\ Done(r)'
                              /\ accounts' = accounts \cup local'[r].account]_vars

\* after a registration a login with a wrong password was answered, and the
\* store holds the account as it was registered
C14_Witness ==
    \E r, r2 \in Reqs :
        /\ RegisteredBefore(r2, r)
        /\ handler[r] = "login" /\ Done(r) /\ res[r].status = 400
        /\ req[r].body.email = req[r2].body.email
        /\ accounts = local[r2].account

(* ------------------------------------------------------------------ C15 *)

\* the paths of an account document
AccountFields == {"_id", "name", "email", "password", "createdAt", "updatedAt"}

\* r was dispatched to register, login or logout and has been answered
UseCaseAnswered(r) == handler[r] \in {"register", "login", "logout"} /\ Done(r)

Unmatched(r) ==
    /\ pc[r] # "new"
    /\ handler[r] \notin {"cors", "limiter", "json"}
    /\ ~(req[r].method = "GET" /\ req[r].url = "/api/test")
    /\ \A rt \in authRouter : ~(rt.method = req[r].method /\ rt.path = req[r].url)

\* C16: a request that reaches the routes and whose method and path match no
\* registered route is answered 404 at once, with a body that has the path
\* and the method of that same request, and with no cookie.
C16_NotFoundEchoes ==
    \A r \in Reqs :
        Unmatched(r) =>
            /\ Done(r)
            /\ res[r].status = 404
            /\ res[r].body.path = req[r].url
            /\ res[r].body.method = req[r].method
            /\ res[r].cookies = <<>>

\* two requests for different unmatched paths with different methods were
\* answered
C16_Witness ==
    \E r, r2 \in Reqs :
        /\ Unmatched(r) /\ Unmatched(r2)
        /\ req[r].url # req[r2].url
        /\ req[r].method # req[r2].method

(* ------------------------------------------------------------------ C17 *)

\* the connection attempt of the startup has failed
ConnectionFailed == server.connection = "failed"

\* the server takes the next request: a register or login can be received
AcceptsRequests ==
    \A r \in Reqs :
        Arrives(r) => ENABLED (\E q \in FaultRequests : RegisterBegin(r, q) \/ LoginBegin(r, q))

\* C17: the connection is attempted only once the server listens; when the
\* attempt has failed the failure is in the log, the process has not exited,
\* and the server listens and takes requests; and it stays so.
C17_ConnectFailureSwallowed ==
    /\ [](server.connection # "none" => server.listening)
    /\ [](ConnectionFailed =>
            /\ \E i \in 1..Len(server.log) : server.log[i] = "MongoDB connection error:"
            /\ ~server.exited
            /\ server.listening
            /\ AcceptsRequests)
    /\ [][ConnectionFailed => server' = server]_vars

\* the connection has failed and two requests, one received after the other
\* was answered, got the answer of the error responder for want of a
\* connection
C17_Witness ==
    \E r, r2 \in Reqs :
        /\ ConnectionFailed
        /\ r2 \in earlier[r]
        /\ err[r2] = BufferingTimeoutError
        /\ Done(r) /\ err[r] = BufferingTimeoutError

(* ------------------------------------------------------------------ C18 *)

\* register or login has answered r with 200
SessionOpened(r) == InUseCase(r) /\ res[r].status = 200

\* C18: a 200 of register or login sets one cookie: it is named token, is
\* httpOnly and same-site lax, lives 15 days, which is the time between the
\* issuance and the expiry of its token, and is secure exactly when the
\* running mode is production; and besides its issuance and expiry the token
\* embeds the identifier of the account of the request's email and nothing
\* else.
C18_CookieAttributes ==
    \A r \in Reqs :
        SessionOpened(r) =>
            /\ Len(res[r].cookies) = 1
            /\ LET c == res[r].cookies[1]
                   t == c.value
               IN  /\ c.name = "token"
                   /\ c.httpOnly = TRUE
                   /\ c.sameSite = "lax"
                   /\ t.fmt = "jwt"
                   /\ t.payload.exp - t.payload.iat = 15
                   /\ c.maxAge = (t.payload.exp - t.payload.iat) * 24 * 60 * 60 * 1000
                   /\ c.secure = (NODE_ENV = "production")
                   /\ DOMAIN t.payload \ {"iat", "exp"} = {"accountId"}
                   /\ \E a \in Holding(req[r].body.email) : t.payload.accountId = a._id

\* in production a login was answered 200 at a later instant than the
\* registration of its account
C18_Witness ==
    \E r, r2 \in Reqs :
        /\ NODE_ENV = "production"
        /\ RegisteredBefore(r2, r)
        /\ handler[r] = "login" /\ SessionOpened(r)
        /\ res[r].cookies[1].value.payload.iat > res[r2].cookies[1].value.payload.iat

(* ------------------------------------------------------------------ C19 *)

\* the requests whose password hashPassword has hashed
Hashed == {r \in Reqs : local[r].hashedPassword # NoHash}

Failed(r) == InUseCase(r) /\ Done(r) /\ res[r].status # 200

\* C20: a register or login request that was answered with a failure (400,
\* 404, 409 or 500) has no cookie on its response, and when it is a register
\* request the store holds no account that this request created.
C20_FailureLeavesNothing ==
    \A r \in Reqs :
        Failed(r) =>
            /\ res[r].status \in {400, 404, 409, 500}
            /\ res[r].cookies = <<>>
            /\ handler[r] = "register" => local[r].account \cap accounts = {}

(* ------------------------------------------------------------------ C21 *)

\* the persisted accounts whose identifier the token of r embeds
TokenAccounts(r) ==
    {a \in accounts : a._id = res[r].cookies[1].value.payload.accountId}

\* C21: in every state, the token of every 200 of register or login embeds
\* the identifier of exactly one persisted account, and the email of that
\* account is the email of the request; as no step removes an account (C14),
\* the account is there from the issuance on.
C21_TokenNamesAccount ==
    /\ [](\A r \in Reqs :
            SessionOpened(r) =>
                /\ Len(res[r].cookies) = 1
                /\ res[r].cookies[1].value.fmt = "jwt"
                /\ Cardinality(TokenAccounts(r)) = 1
                /\ \A a \in TokenAccounts(r) : a.email = req[r].body.email)
    /\ [][\A r \in Reqs :
            (SessionOpened(r) /\ SessionOpened(r)') => TokenAccounts(r)' = TokenAccounts(r)]_vars

\* two accounts with different emails were registered, each request holding
\* the token of its own account
C21_Witness ==
    \E r, r2 \in Reqs :
        /\ SessionOpened(r) /\ SessionOpened(r2)
        /\ req[r].body.email # req[r2].body.email
        /\ TokenAccounts(r) # TokenAccounts(r2)

(* ------------------------------------------------------------------ C22 *)

\* the requests from address a that the limiter has counted in the running
\* window of a
InWindow(a) == {r \in limiter.counted[a] : req[r].ip = a}

\* those of them the limiter has let through
Admitted(a) == {r \in InWindow(a) : handler[r] # "limiter"}

\* r arrives in this step and gets past cors
ReachesLimiter(r) == pc[r] = "new" /\ pc'[r] # "new" /\ handler'[r] # "cors"

\* C22: the limiter counts, for each address, the requests from that address
\* in its running window, and lets at most max of them through; a request is
\* answered by the limiter exactly when its own address has max requests in
\* its running window, whatever the other addresses have sent; and when the
\* window of an address elapses its count is zero again, the counts of the
\* other addresses staying as they were.
C22_PerAddressWindow ==
    /\ [](\A a \in Addresses :
            /\ \A r \in limiter.counted[a] : req[r].ip = a
            /\ limiter.hits[a] = Cardinality(InWindow(a))
            /\ Cardinality(Admitted(a)) <= limiter.max)
    /\ [][\A r \in Reqs :
            ReachesLimiter(r) =>
                (handler'[r] = "limiter" <=>
                    Cardinality(InWindow(req'[r].ip)) >= limiter.max)]_vars
    /\ [][\A a \in Addresses :
            (limiter.counted[a] # {} /\ limiter'.counted[a] = {}) =>
                /\ limiter'.hits[a] = 0
                /\ \A b \in Addresses \ {a} : limiter'.hits[b] = limiter.hits[b]]_vars

\* with max 1, two requests from one address were both let through, the
\* second after the window of the first had elapsed, while the other address
\* has sent nothing
C22_Witness ==
    \E r, r2 \in Reqs :
        /\ r2 \in earlier[r]
        /\ req[r].ip = req[r2].ip
        /\ handler[r2] \notin {"cors", "limiter"}
        /\ handler[r] \notin {"cors", "limiter"} /\ Done(r)
        /\ limiter.max = 1
        /\ Admitted(req[r].ip) = {r}

====
